---- MODULE Spec2Model ----
(***************************************************************************)
(* A model of algokit_utils' AccountManager (the signer registry) and      *)
(* AlgorandClient (the suggested-params cache and the send facade).        *)
(***************************************************************************)
EXTENDS Integers, Sequences, FiniteSets, TLC

(***************************************************************************)
(* Values.                                                                 *)
(***************************************************************************)

\* Python's None, for the optional signer and result fields.
None == "None"

\* Sender addresses.
Addresses == {"A", "B"}

\* A TransactionSigner whose class gives it a false truth value (a signer
\* class that defines __len__ or __bool__, e.g. a key collection that is
\* empty).  set_signer and set_default_signer accept any TransactionSigner.
FalsySigner == "s_empty"

\* The signers callers register: two ordinary ones and the falsy one.
Signers == {"s1", "s2", FalsySigner}

\* Python's truth test of a value (`x or y`, `not x`, `if x`): None is false,
\* and so is an object whose class says so.
Truthy(v) == v \notin {None, FalsySigner}

\* Python's `a or b`: a when a is truthy, else b.
PyOr(a, b) == IF Truthy(a) THEN a ELSE b

\* An optional number (Optional[float]): <<>> is None, <<t>> is the number t.
NoneNum == <<>>
Some(t) == <<t>>

\* Python's `a or b` on an optional number a: None and 0 are false.
PyOrNum(a, b) == IF a # NoneNum /\ a[1] # 0 THEN a[1] ELSE b

VARIABLES
    _accounts,          \* AccountManager._accounts: address -> signer (a dict)
    _default_signer,    \* AccountManager._default_signer: a signer or None
    _cached_suggested_params,         \* reference to the cached object, 0 is None
    _cached_suggested_params_expiry,  \* optional timestamp
    _cached_suggested_params_timeout, \* the TTL added to time.time()
    now,                \* time.time()
    heap,               \* the value of each SuggestedParams object, by reference
    caller,             \* the objects the caller holds: the last one returned to
                        \* it (ret) and the last one it passed in (seed)
    window,             \* history: the value and expiry set by the last
                        \* get_suggested_params that fetched, <<>> after a seed
    ledger,             \* the groups the ledger has accepted, in order: the
                        \* number of transactions of each
    groups_created,     \* the number of AlgokitComposer objects new_group()
                        \* has built; the k-th one is group k
    open_groups,        \* the groups the caller got from new_group() and
                        \* still holds: group -> its constructor arguments
    _default_validity_window,         \* AlgorandClient._default_validity_window
    call                \* the last facade call: its name, arguments and outcome

accountVars == <<_accounts, _default_signer>>

cacheVars == <<_cached_suggested_params, _cached_suggested_params_expiry,
               _cached_suggested_params_timeout, now, heap, caller, window>>

sendVars == <<ledger, groups_created, open_groups, _default_validity_window>>

\* What the registry's methods leave alone, and what the cache's methods do.
nonAccountVars == <<cacheVars, sendVars>>
nonCacheVars == <<accountVars, sendVars>>

vars == <<accountVars, cacheVars, sendVars, call>>

(***************************************************************************)
(* AccountManager.                                                         *)
(***************************************************************************)

\* AccountManager.__init__: an empty registry and no default signer.
AccountManagerInit ==
    /\ _accounts = <<>>
    /\ _default_signer = None

\* dict.get(key, None).
DictGet(d, key) == IF key \in DOMAIN d THEN d[key] ELSE None

\* The mutant of DictSet: the dict is replaced by one with that entry alone.
DictReplace(d, key, value) == [k \in {key} |-> value]

\* d[key] = value on a dict.
DictSet(d, key, value) ==
    [k \in DOMAIN d \cup {key} |-> IF k = key THEN value ELSE d[k]]

\* The mutant of GetSignerResult: the `if not signer: raise` check is missing.
GetSignerNoRaise(accounts, default, sender) ==
    [ret |-> PyOr(DictGet(accounts, sender), default), err |-> None]

\* AccountManager.get_signer(sender): what it returns or raises.
GetSignerResult(accounts, default, sender) ==
    LET signer == PyOr(DictGet(accounts, sender), default)
    IN  IF ~Truthy(signer)
        THEN [ret |-> None, err |-> "ValueError"]
        ELSE [ret |-> signer, err |-> None]

\* AccountManager.set_default_signer(signer).
set_default_signer(signer) ==
    /\ _default_signer' = signer
    /\ call' = [op |-> "set_default_signer", sender |-> None,
                signer |-> signer, ret |-> None, err |-> None]
    /\ UNCHANGED <<_accounts, nonAccountVars>>

\* AccountManager.set_signer(sender, signer).
set_signer(sender, signer) ==
    /\ _accounts' = DictSet(_accounts, sender, signer)
    /\ call' = [op |-> "set_signer", sender |-> sender,
                signer |-> signer, ret |-> None, err |-> None]
    /\ UNCHANGED <<_default_signer, nonAccountVars>>

\* The mutant of get_signer: a signer found by falling back on the default is
\* remembered in the registry.
get_signer_memoising(sender) ==
    LET r == GetSignerResult(_accounts, _default_signer, sender)
    IN  /\ call' = [op |-> "get_signer", sender |-> sender,
                    signer |-> None, ret |-> r.ret, err |-> r.err]
        /\ _accounts' = IF r.err = None THEN DictSet(_accounts, sender, r.ret)
                                        ELSE _accounts
        /\ UNCHANGED <<_default_signer, nonAccountVars>>

\* AccountManager.get_signer(sender).
get_signer(sender) ==
    LET r == GetSignerResult(_accounts, _default_signer, sender)
    IN  /\ call' = [op |-> "get_signer", sender |-> sender,
                    signer |-> None, ret |-> r.ret, err |-> r.err]
        /\ UNCHANGED <<accountVars, nonAccountVars>>

(***************************************************************************)
(* AccountManager: the provisioning operations.  The account helpers        *)
(* (get_kmd_wallet_account, get_dispenser_account,                         *)
(* get_localnet_default_account) are collaborators, modelled by their      *)
(* contract.                                                               *)
(***************************************************************************)

\* AccountTransactionSigner(sk) for the secret key of address a.  Two such
\* signers are equal when their keys are, and none is falsy.
KeySigner(a) == "key_" \o a

\* An account with its private key loaded: its address and its signer.
Account(a) == [address |-> a, signer |-> KeySigner(a)]

\* The address of the dispenser account of the network.
DispenserAddress == "A"

\* The key-management wallets, by name: the addresses each holds.
KmdWallets == [w \in {"W", "Wempty"} |-> IF w = "W" THEN Addresses ELSE {}]

\* The wallet names from_kmd is called with, one of them of no wallet.
WalletNames == {"W", "Wempty", "Wmissing"}

\* The predicates from_kmd is called with: none (<<>>), or one that accepts
\* the accounts of the addresses in S (<<S>>).
Predicates == {<<>>} \cup {<<S>> : S \in SUBSET Addresses}

\* The sender arguments of from_kmd: none, or an address.
Senders == {None} \cup Addresses

\* No account (None) and an account, as results of a lookup.
NoAccount == <<>>

\* get_kmd_wallet_account(name, predicate, ...): the results it may give.
\* None when there is no such wallet or no account of it passes the
\* predicate, else any one of the accounts that pass.
GetKmdWalletAccount(name, predicate) ==
    LET held == IF name \in DOMAIN KmdWallets THEN KmdWallets[name] ELSE {}
        pass == IF predicate = <<>> THEN held ELSE held \cap predicate[1]
    IN  IF pass = {} THEN {NoAccount} ELSE {<<Account(a)>> : a \in pass}

\* get_dispenser_account(algod) and get_localnet_default_account(algod): the
\* results they may give.  They raise (<<>> here) when the network is not a
\* LocalNet and, for the former, no dispenser mnemonic is configured.
GetDispenserAccount == {NoAccount, <<Account(DispenserAddress)>>}

\* The registry as a provisioning call finds it.
RegistrySnapshot == [accounts |-> _accounts, default |-> _default_signer]

\* The record of a provisioning call.
ProvisionCall(op, name, predicate, sender, found, ret, err) ==
    [op |-> op, name |-> name, predicate |-> predicate, sender |-> sender,
     found |-> found, ret |-> ret, err |-> err, before |-> RegistrySnapshot]

\* The mutant of TrackAccount: the pair is returned without being registered.
TrackAccountUnregistered(accounts, account) ==
    [accounts |-> accounts,
     ret |-> [addr |-> account.address, signer |-> account.signer],
     err |-> None]

\* The common tail of the provisioning operations:
\* self.set_signer(address, signer); return AddrAndSigner(addr, signer).
TrackAccount(accounts, account) ==
    [accounts |-> DictSet(accounts, account.address, account.signer),
     ret |-> [addr |-> account.address, signer |-> account.signer],
     err |-> None]

\* The mutant of FromKmd: the `if not account` check is missing, so the
\* attribute access on None raises.
FromKmdNoCheck(accounts, found, sender) ==
    IF found = NoAccount
    THEN [accounts |-> accounts, ret |-> None, err |-> "AttributeError"]
    ELSE TrackAccount(accounts, found[1])

\* AccountManager.from_kmd(name, predicate, sender) once the lookup gave
\* `found`.  The sender argument is not used.
FromKmd(accounts, found, sender) ==
    IF found = NoAccount
    THEN [accounts |-> accounts, ret |-> None, err |-> "ValueError"]
    ELSE TrackAccount(accounts, found[1])

\* AccountManager.from_kmd(name, predicate, sender).
from_kmd(name, predicate, sender) ==
    \E found \in GetKmdWalletAccount(name, predicate) :
        LET r == FromKmd(_accounts, found, sender)
        IN  /\ _accounts' = r.accounts
            /\ call' = ProvisionCall("from_kmd", name, predicate, sender,
                                     found, r.ret, r.err)
            /\ UNCHANGED <<_default_signer, nonAccountVars>>

\* AccountManager.random(): generate_account() gives the key of some address.
random ==
    \E a \in Addresses :
        LET r == TrackAccount(_accounts, Account(a))
        IN  /\ _accounts' = r.accounts
            /\ call' = ProvisionCall("random", None, <<>>, None,
                                     <<Account(a)>>, r.ret, r.err)
            /\ UNCHANGED <<_default_signer, nonAccountVars>>

\* A provisioning operation that gets its account from the helper `lookup`
\* gave `found`: the helper's error passes through, else the account is
\* tracked.
TrackFound(op, found) ==
    LET r == IF found = NoAccount
             THEN [accounts |-> _accounts, ret |-> None, err |-> "Exception"]
             ELSE TrackAccount(_accounts, found[1])
    IN  /\ _accounts' = r.accounts
        /\ call' = ProvisionCall(op, None, <<>>, None, found, r.ret, r.err)
        /\ UNCHANGED <<_default_signer, nonAccountVars>>

\* AccountManager.dispenser().
dispenser == \E found \in GetDispenserAccount : TrackFound("dispenser", found)

\* AccountManager.localnet_dispenser().
localnet_dispenser ==
    \E found \in GetDispenserAccount : TrackFound("localnet_dispenser", found)

(***************************************************************************)
(* AlgorandClient: the suggested-params cache.                             *)
(***************************************************************************)

\* self._cached_suggested_params_timeout as __init__ sets it.
DefaultTimeout == 3000

\* The three seconds the default timeout is meant to be, in the unit of
\* time.time().
ThreeSeconds == 3

\* The clock runs from 1 to MaxTime.
MaxTime == 4

\* set_suggested_params_timeout is called with 0..MaxTimeout.
MaxTimeout == 2

\* The distinct SuggestedParams values (what the ledger suggests changes).
NumParamsValues == 2

\* The SuggestedParams objects alive at once: the cached one, the two the
\* caller holds (the last returned to it, the last it passed in) and the copy
\* being handed out.
MaxObjs == 4

ObjIds == 1..MaxObjs
ParamsValues == 1..NumParamsValues
Timeouts == 0..MaxTimeout

\* The `until` arguments: absent, 0, and timestamps before, at and after now.
Untils == {NoneNum} \cup {Some(t) : t \in 0..MaxTime}

\* A reference for a new object: the lowest one no live object has.
Alloc(live) ==
    CHOOSE i \in ObjIds \ live : \A j \in ObjIds \ live : i <= j

\* The heap with the objects no one refers to any more cleared.
GC(h, live) == [i \in ObjIds |-> IF i \in live THEN h[i] ELSE 0]

\* AlgorandClient.__init__: nothing cached, the default timeout.
CacheInit ==
    /\ _cached_suggested_params = 0
    /\ _cached_suggested_params_expiry = NoneNum
    /\ _cached_suggested_params_timeout = DefaultTimeout
    /\ now = 1
    /\ heap = [i \in ObjIds |-> 0]
    /\ caller = [ret |-> 0, seed |-> 0]
    /\ window = <<>>

\* The value of the cached object, 0 when nothing is cached.
CachedValue ==
    IF _cached_suggested_params = 0 THEN 0 ELSE heap[_cached_suggested_params]

\* The cache as a call finds it.
Snapshot ==
    [ref |-> _cached_suggested_params, value |-> CachedValue,
     expiry |-> _cached_suggested_params_expiry,
     timeout |-> _cached_suggested_params_timeout, window |-> window]

\* The record of a call on the cache.
CacheCall(op, value, until, timeout, fetches) ==
    [op |-> op, value |-> value, until |-> until, timeout |-> timeout,
     fetches |-> fetches, before |-> Snapshot]

\* Mutants of CacheFresh: the comparison inverted, and the boundary included.
CacheFreshInverted(cached, expiry, t) ==
    cached # 0 /\ (expiry = NoneNum \/ expiry[1] < t)
CacheFreshInclusive(cached, expiry, t) ==
    cached # 0 /\ (expiry = NoneNum \/ expiry[1] >= t)

\* The condition of get_suggested_params under which the cache is served:
\* a value is cached and (no expiry is set or the expiry is after time.time()).
\* A SuggestedParams object is always true under `and`: its class defines
\* neither __bool__ nor __len__.
CacheFresh(cached, expiry, t) ==
    cached # 0 /\ (expiry = NoneNum \/ expiry[1] > t)

\* The mutant of ParamsCopy: the stored object itself is handed out.
ParamsNoCopy(h, src, live) == [ref |-> src, heap |-> h]

\* SuggestedParams.copy(): a new object with the value of src.
ParamsCopy(h, src, live) ==
    LET r == Alloc(live)
    IN  [ref |-> r, heap |-> [h EXCEPT ![r] = h[src]]]

\* The mutant of GetSuggestedParams: a fetch stamps the expiry and returns
\* the fetched value without storing it.
GetSuggestedParamsUnstored(cached, expiry, timeout, t, h, held, v) ==
    IF CacheFresh(cached, expiry, t)
    THEN LET c == ParamsCopy(h, cached, {cached} \cup held)
         IN  [cached |-> cached, expiry |-> expiry, ret |-> c.ref,
              heap |-> c.heap, fetches |-> 0]
    ELSE LET f == Alloc(held)
             c == ParamsCopy([h EXCEPT ![f] = v], f, {f} \cup held)
         IN  [cached |-> cached, expiry |-> Some(t + timeout), ret |-> c.ref,
              heap |-> c.heap, fetches |-> 1]

\* AlgorandClient.get_suggested_params() at time t, when the ledger would
\* suggest v and the caller still holds the objects in held: the cache it
\* leaves, the object it returns and the number of calls it makes to
\* algod.suggested_params().
GetSuggestedParams(cached, expiry, timeout, t, h, held, v) ==
    IF CacheFresh(cached, expiry, t)
    THEN LET c == ParamsCopy(h, cached, {cached} \cup held)
         IN  [cached |-> cached, expiry |-> expiry, ret |-> c.ref,
              heap |-> c.heap, fetches |-> 0]
    ELSE LET f == Alloc(held)
             c == ParamsCopy([h EXCEPT ![f] = v], f, {f} \cup held)
         IN  [cached |-> f, expiry |-> Some(t + timeout), ret |-> c.ref,
              heap |-> c.heap, fetches |-> 1]

\* The history of the last fetch after a get_suggested_params() that
\* returned r when the ledger suggested v.
WindowAfter(r, v) ==
    IF r.fetches = 1
    THEN <<[value |-> v, expiry |-> r.expiry[1], at |-> now]>>
    ELSE window

\* AlgorandClient.get_suggested_params(), called by the caller, who lets go
\* of the object the previous call returned.
get_suggested_params ==
    \E v \in ParamsValues :
        LET r == GetSuggestedParams(_cached_suggested_params,
                     _cached_suggested_params_expiry,
                     _cached_suggested_params_timeout, now, heap,
                     {caller.seed} \ {0}, v)
        IN  /\ _cached_suggested_params' = r.cached
            /\ _cached_suggested_params_expiry' = r.expiry
            /\ heap' = GC(r.heap, {r.cached, r.ret, caller.seed})
            /\ caller' = [caller EXCEPT !.ret = r.ret]
            /\ window' = WindowAfter(r, v)
            /\ call' = CacheCall("get_suggested_params", r.heap[r.ret],
                                 NoneNum, 0, r.fetches)
            /\ UNCHANGED <<_cached_suggested_params_timeout, now, nonCacheVars>>

\* AlgorandClient.set_suggested_params(suggested_params, until), the argument
\* being a new object of value v that the caller keeps a reference to.
set_suggested_params(v, until) ==
    LET p == Alloc({caller.ret} \ {0})
    IN  /\ _cached_suggested_params' = p
        /\ _cached_suggested_params_expiry' =
               Some(PyOrNum(until, now + _cached_suggested_params_timeout))
        /\ heap' = GC([heap EXCEPT ![p] = v], {p, caller.ret})
        /\ caller' = [caller EXCEPT !.seed = p]
        /\ window' = <<>>
        /\ call' = CacheCall("set_suggested_params", v, until, 0, 0)
        /\ UNCHANGED <<_cached_suggested_params_timeout, now, nonCacheVars>>

\* The mutant of set_suggested_params_timeout: the expiry is stamped again.
set_suggested_params_timeout_restamp(timeout) ==
    /\ _cached_suggested_params_timeout' = timeout
    /\ _cached_suggested_params_expiry' = Some(now + timeout)
    /\ call' = CacheCall("set_suggested_params_timeout", 0, NoneNum, timeout, 0)
    /\ UNCHANGED <<_cached_suggested_params, now, heap, caller, window,
                   nonCacheVars>>

\* AlgorandClient.set_suggested_params_timeout(timeout).
set_suggested_params_timeout(timeout) ==
    /\ _cached_suggested_params_timeout' = timeout
    /\ call' = CacheCall("set_suggested_params_timeout", 0, NoneNum, timeout, 0)
    /\ UNCHANGED <<_cached_suggested_params, _cached_suggested_params_expiry,
                   now, heap, caller, window, nonCacheVars>>

\* The caller changes, in place, an object it holds: the one last returned by
\* get_suggested_params (field "ret") or the one it last passed to
\* set_suggested_params (field "seed").
mutate(field, v) ==
    /\ caller[field] # 0
    /\ heap[caller[field]] # v
    /\ heap' = [heap EXCEPT ![caller[field]] = v]
    /\ call' = CacheCall("mutate_" \o field, v, NoneNum, 0, 0)
    /\ UNCHANGED <<_cached_suggested_params, _cached_suggested_params_expiry,
                   _cached_suggested_params_timeout, now, caller, window,
                   nonCacheVars>>

\* time.time() moves on between calls.  `time` is taken to be the standard
\* library's module, and one call reads one clock value: the clock is coarser
\* than a call is long.
tick ==
    /\ now < MaxTime
    /\ now' = now + 1
    /\ call' = CacheCall("tick", 0, NoneNum, 0, 0)
    /\ UNCHANGED <<_cached_suggested_params, _cached_suggested_params_expiry,
                   _cached_suggested_params_timeout, heap, caller, window,
                   nonCacheVars>>

(***************************************************************************)
(* AlgorandClient: the send facade.  The composer (AlgokitComposer) and    *)
(* the ledger are collaborators, modelled by their contract.               *)
(***************************************************************************)

\* The groups one run submits.
MaxSends == 2

\* The groups (AlgokitComposer objects) one run builds.
MaxGroups == 3

\* The transactions a method call's group may hold.
MaxGroupSize == 2

\* The fields of AlgorandClientSendMethods.
OpKinds ==
    {"payment", "asset_create", "asset_config", "asset_freeze",
     "asset_destroy", "asset_transfer", "app_call", "online_key_reg",
     "method_call", "asset_opt_in"}

\* The sizes the group built from one record may have: a method call may
\* bring transactions of its own, every other kind builds one transaction.
GroupSizes(op) == IF op = "method_call" THEN 1..MaxGroupSize ELSE {1}

\* The id of the i-th transaction of the g-th group the ledger accepted.
TxId(g, i) == <<g, i>>

\* self._default_validity_window as __init__ sets it.
DefaultValidityWindow == 10

\* AlgorandClient.__init__ on a ledger that has accepted nothing from it: no
\* group built yet, the default validity window.
SendInit ==
    /\ ledger = <<>>
    /\ groups_created = 0
    /\ open_groups = <<>>
    /\ _default_validity_window = DefaultValidityWindow

\* AlgokitComposer.execute() of a group of n transactions: the ledger accepts
\* the group, and the response lists the transactions' ids in group order.
ComposerExecute(l, n) ==
    [ledger |-> Append(l, n),
     tx_ids |-> [i \in 1..n |-> TxId(Len(l) + 1, i)]]

\* algosdk's wait_for_confirmation(algod, txid): the ledger's record of that
\* transaction, once it is confirmed.
WaitForConfirmation(l, txid) ==
    [txid |-> txid, group |-> txid[1], index |-> txid[2],
     confirmed |-> txid[1] \in 1..Len(l) /\ txid[2] \in 1..l[txid[1]]]

\* The mutant of UnwrapSingleSendResult: it waits for the group's last
\* transaction.
UnwrapWaitsForLast(l, tx_ids) ==
    [confirmation |-> WaitForConfirmation(l, tx_ids[Len(tx_ids)]),
     tx_id |-> tx_ids[1]]

\* AlgorandClient._unwrap_single_send_result(results), results.tx_ids being
\* tx_ids (Python's index 0 is index 1 here).
UnwrapSingleSendResult(l, tx_ids) ==
    [confirmation |-> WaitForConfirmation(l, tx_ids[1]),
     tx_id |-> tx_ids[1]]

\* The record of a send.<op> or transactions.<op> call: the group it built,
\* the calls it made on the composer and the ledger client, in order, and
\* what it returned or raised.
FacadeCall(facade, op, sender, size, group, trace, tx_ids, result, err) ==
    [op |-> facade, kind |-> op, sender |-> sender, size |-> size,
     group |-> group, trace |-> trace, tx_ids |-> tx_ids, result |-> result, err |-> err,
     before |-> [ledger |-> ledger, groups_created |-> groups_created]]

\* set_default_validity_window is called with 1..MaxWindow rounds.
MaxWindow == 2

ValidityWindows == 1..MaxWindow

\* The mutant of NewGroup: the composer is built without the client's
\* window and falls back on the default one.
NewGroupUnbound == [default_validity_window |-> DefaultValidityWindow]

\* AlgorandClient.new_group(): the arguments it constructs the composer
\* with.  The signer resolver and the params provider are the client's own
\* methods; the validity window is passed by value.
NewGroup == [default_validity_window |-> _default_validity_window]

\* AlgorandClient.set_default_validity_window(validity_window).
set_default_validity_window(validity_window) ==
    /\ _default_validity_window' = validity_window
    /\ call' = [op |-> "set_default_validity_window",
                validity_window |-> validity_window]
    /\ UNCHANGED <<ledger, groups_created, open_groups, accountVars,
                   cacheVars>>

\* AlgorandClient.new_group(), called by the caller, who keeps the composer.
new_group ==
    /\ groups_created < MaxGroups
    /\ groups_created' = groups_created + 1
    /\ open_groups' = DictSet(open_groups, groups_created + 1, NewGroup)
    /\ call' = [op |-> "new_group", group |-> groups_created + 1]
    /\ UNCHANGED <<ledger, _default_validity_window, accountVars, cacheVars>>

\* The mutant of SendTrace: the result is returned without waiting for the
\* confirmation.
SendTraceNoWait(op, executed) == <<"new_group", "add_" \o op, "execute">>

\* The calls one send.<op>(params) makes, in order: new_group(),
\* add_<op>(params), execute() and, when execute() returned, the
\* wait_for_confirmation of _unwrap_single_send_result.
SendTrace(op, executed) ==
    <<"new_group", "add_" \o op, "execute">>
        \o (IF executed THEN <<"wait_for_confirmation">> ELSE <<>>)

\* AlgorandClient.send.<op>(params) for a record whose sender is `sender` and
\* whose group builds to n transactions: new_group(), add_<op>(params),
\* execute() and _unwrap_single_send_result.  Building asks the group's
\* params provider (get_suggested_params) and then its signer resolver
\* (account.get_signer); a sender without a signer fails the call before
\* anything is submitted.
send(op, sender, n) ==
    /\ Len(ledger) < MaxSends
    /\ groups_created < MaxGroups
    /\ \E v \in ParamsValues :
        LET held == {caller.seed, caller.ret} \ {0}
            p == GetSuggestedParams(_cached_suggested_params,
                     _cached_suggested_params_expiry,
                     _cached_suggested_params_timeout, now, heap, held, v)
            s == GetSignerResult(_accounts, _default_signer, sender)
            e == ComposerExecute(ledger, n)
            g == groups_created + 1
        IN  /\ groups_created' = g
            /\ _cached_suggested_params' = p.cached
            /\ _cached_suggested_params_expiry' = p.expiry
            /\ heap' = GC(p.heap, {p.cached} \cup held)
            /\ window' = WindowAfter(p, v)
            /\ IF s.err # None
               THEN /\ call' = FacadeCall("send", op, sender, n, g,
                                   SendTrace(op, FALSE), <<>>, None, s.err)
                    /\ UNCHANGED ledger
               ELSE /\ ledger' = e.ledger
                    /\ call' = FacadeCall("send", op, sender, n, g,
                                   SendTrace(op, TRUE), e.tx_ids,
                                   UnwrapSingleSendResult(e.ledger, e.tx_ids),
                                   None)
            /\ UNCHANGED <<_cached_suggested_params_timeout, now, caller,
                           open_groups, _default_validity_window, accountVars>>

\* An unsigned transaction: the i-th one built by group g.
Txn(g, i) == [group |-> g, index |-> i]

\* AlgokitComposer.build_group() of group g, which builds to n transactions
\* signed by signer: the transactions with their signer, in group order.
ComposerBuildGroup(g, n, signer) ==
    [i \in 1..n |-> [txn |-> Txn(g, i), signer |-> signer]]

\* The mutant of TransactionsResult: a method call is unwrapped like every
\* other kind.
TransactionsResultFirstOnly(op, built) ==
    [list |-> FALSE, txns |-> <<built[1].txn>>]

\* What transactions.<op> makes of the built group: the list of all its
\* transactions for method_call, the first one's transaction otherwise.
TransactionsResult(op, built) ==
    IF op = "method_call"
    THEN [list |-> TRUE, txns |-> [i \in 1..Len(built) |-> built[i].txn]]
    ELSE [list |-> FALSE, txns |-> <<built[1].txn>>]

\* AlgorandClient.transactions.<op>(params): new_group(), add_<op>(params)
\* and build_group(), which asks the params provider and the signer resolver
\* like execute() does and submits nothing.
transactions(op, sender, n) ==
    /\ groups_created < MaxGroups
    /\ \E v \in ParamsValues :
        LET held == {caller.seed, caller.ret} \ {0}
            p == GetSuggestedParams(_cached_suggested_params,
                     _cached_suggested_params_expiry,
                     _cached_suggested_params_timeout, now, heap, held, v)
            s == GetSignerResult(_accounts, _default_signer, sender)
            g == groups_created + 1
            trace == <<"new_group", "add_" \o op, "build_group">>
        IN  /\ groups_created' = g
            /\ _cached_suggested_params' = p.cached
            /\ _cached_suggested_params_expiry' = p.expiry
            /\ heap' = GC(p.heap, {p.cached} \cup held)
            /\ window' = WindowAfter(p, v)
            /\ call' = IF s.err # None
                       THEN FacadeCall("transactions", op, sender, n, g,
                                trace,
                                <<>>, None, s.err)
                       ELSE FacadeCall("transactions", op, sender, n, g,
                                trace,
                                <<>>,
                                TransactionsResult(op,
                                    ComposerBuildGroup(g, n, s.ret)),
                                None)
            /\ UNCHANGED <<_cached_suggested_params_timeout, now, caller,
                           ledger, open_groups, _default_validity_window,
                           accountVars>>

(***************************************************************************)
(* The groups the caller opens with new_group() and builds or executes     *)
(* later.  The composer calls the two callables new_group() gave it when   *)
(* it builds the group.                                                    *)
(***************************************************************************)

\* The mutant of GroupGetSigner: the resolver reads the registry as it was
\* when the client was constructed.
GroupGetSignerAtConstruction(accounts, default, sender) ==
    GetSignerResult(<<>>, None, sender)

\* The get_signer argument of the composer, called with sender:
\* lambda addr: self.account.get_signer(addr), which reads the registry
\* (accounts, default) of the time of the call.
GroupGetSigner(accounts, default, sender) ==
    GetSignerResult(accounts, default, sender)

\* History: the last call, when it wrote the registry or seeded the cache.
LastSet ==
    IF call.op \in {"set_signer", "set_default_signer", "set_suggested_params"}
    THEN call
    ELSE [op |-> call.op]

\* The record of a build_group() or execute() on an open group.
GroupCall(how, g, op, sender, signer, value, fetches) ==
    [op |-> how, group |-> g, kind |-> op, sender |-> sender,
     signer |-> signer, value |-> value, fetches |-> fetches,
     err |-> signer.err, prev |-> LastSet,
     before |-> [cache |-> Snapshot, ledger |-> ledger]]

\* open_groups without group g: the caller lets go of a group it has built
\* or executed.
CloseGroup(g) == [h \in DOMAIN open_groups \ {g} |-> open_groups[h]]

\* The caller adds one <op> of `sender` to its open group g, which builds to
\* n transactions, and runs `how` on it: the composer asks the group's params
\* provider (self.get_suggested_params) and its signer resolver, and
\* execute() submits the group when the signer was found.
RunGroup(how, g, op, sender, n) ==
    /\ g \in DOMAIN open_groups
    /\ \E v \in ParamsValues :
        LET held == {caller.seed, caller.ret} \ {0}
            p == GetSuggestedParams(_cached_suggested_params,
                     _cached_suggested_params_expiry,
                     _cached_suggested_params_timeout, now, heap, held, v)
            r == GroupGetSigner(_accounts, _default_signer, sender)
        IN  /\ _cached_suggested_params' = p.cached
            /\ _cached_suggested_params_expiry' = p.expiry
            /\ heap' = GC(p.heap, {p.cached} \cup held)
            /\ window' = WindowAfter(p, v)
            /\ open_groups' = CloseGroup(g)
            /\ ledger' = IF how = "execute" /\ r.err = None
                         THEN ComposerExecute(ledger, n).ledger
                         ELSE ledger
            /\ call' = GroupCall(how, g, op, sender, r, p.heap[p.ret],
                                 p.fetches)
            /\ UNCHANGED <<_cached_suggested_params_timeout, now, caller,
                           groups_created, _default_validity_window,
                           accountVars>>

\* AlgokitComposer.build_group() on the open group g.
build_group(g, op, sender, n) == RunGroup("build_group", g, op, sender, n)

\* AlgokitComposer.execute() on the open group g.
execute(g, op, sender, n) ==
    /\ Len(ledger) < MaxSends
    /\ RunGroup("execute", g, op, sender, n)

(***************************************************************************)
(* AlgorandClient when the ledger fails: algod.suggested_params() raises,  *)
(* or the composer's execute() does.                                       *)
(***************************************************************************)

\* What the ledger client raises.
LedgerError == "AlgodHTTPError"

\* The mutant of GetSuggestedParamsDown: the stale cache is dropped before
\* the ledger is asked.
GetSuggestedParamsDownDropsCache(cached, expiry, timeout, t, h, held) ==
    IF CacheFresh(cached, expiry, t)
    THEN LET c == ParamsCopy(h, cached, {cached} \cup held)
         IN  [cached |-> cached, expiry |-> expiry, ret |-> c.ref,
              heap |-> c.heap, fetches |-> 0, err |-> None]
    ELSE [cached |-> 0, expiry |-> NoneNum, ret |-> 0, heap |-> h,
          fetches |-> 1, err |-> LedgerError]

\* AlgorandClient.get_suggested_params() at time t when
\* algod.suggested_params() raises: a fresh cache is served as ever; else the
\* one call to the ledger raises before either field is assigned.
GetSuggestedParamsDown(cached, expiry, timeout, t, h, held) ==
    IF CacheFresh(cached, expiry, t)
    THEN LET c == ParamsCopy(h, cached, {cached} \cup held)
         IN  [cached |-> cached, expiry |-> expiry, ret |-> c.ref,
              heap |-> c.heap, fetches |-> 0, err |-> None]
    ELSE [cached |-> cached, expiry |-> expiry, ret |-> 0, heap |-> h,
          fetches |-> 1, err |-> LedgerError]

\* The record of a call made while a collaborator fails: that of the call,
\* which collaborator fails, and what the call raised.
FaultCall(c, fault, err) == [fault |-> fault, err |-> err] @@ c

\* AlgorandClient.get_suggested_params() while the ledger is down.  When it
\* raises, the caller's variable is not assigned.
get_suggested_params_down ==
    LET r == GetSuggestedParamsDown(_cached_suggested_params,
                 _cached_suggested_params_expiry,
                 _cached_suggested_params_timeout, now, heap,
                 {caller.seed} \ {0})
    IN  /\ _cached_suggested_params' = r.cached
        /\ _cached_suggested_params_expiry' = r.expiry
        /\ IF r.err = None
           THEN /\ heap' = GC(r.heap, {r.cached, r.ret, caller.seed})
                /\ caller' = [caller EXCEPT !.ret = r.ret]
           ELSE /\ heap' = GC(r.heap, {r.cached, caller.ret, caller.seed})
                /\ caller' = caller
        /\ call' = FaultCall(CacheCall("get_suggested_params",
                                       IF r.err = None THEN r.heap[r.ret]
                                                       ELSE 0,
                                       NoneNum, 0, r.fetches),
                             "suggested_params", r.err)
        /\ UNCHANGED <<_cached_suggested_params_timeout, now, window,
                       nonCacheVars>>

\* The mutant of SendRejected: the failure of execute is caught and the
\* confirmation of the first transaction is waited for all the same.
SendRejectedWaits(op) == [trace |-> SendTrace(op, TRUE), err |-> None]

\* What send.<op> calls and raises when execute() raises:
\* _unwrap_single_send_result is not entered, and the error is the call's.
SendRejected(op) == [trace |-> SendTrace(op, FALSE), err |-> LedgerError]

\* AlgorandClient.send.<op>(params) when the ledger rejects the group at
\* execute(): as send up to there, and nothing is accepted.
send_rejected(op, sender, n) ==
    /\ groups_created < MaxGroups
    /\ \E v \in ParamsValues :
        LET held == {caller.seed, caller.ret} \ {0}
            p == GetSuggestedParams(_cached_suggested_params,
                     _cached_suggested_params_expiry,
                     _cached_suggested_params_timeout, now, heap, held, v)
            s == GetSignerResult(_accounts, _default_signer, sender)
            g == groups_created + 1
        IN  /\ groups_created' = g
            /\ _cached_suggested_params' = p.cached
            /\ _cached_suggested_params_expiry' = p.expiry
            /\ heap' = GC(p.heap, {p.cached} \cup held)
            /\ window' = WindowAfter(p, v)
            /\ LET out == IF s.err # None
                          THEN [trace |-> SendTrace(op, FALSE), err |-> s.err]
                          ELSE SendRejected(op)
               IN  call' = FaultCall(FacadeCall("send", op, sender, n, g,
                                         out.trace, <<>>, None, out.err),
                                     "execute", out.err)
            /\ UNCHANGED <<_cached_suggested_params_timeout, now, caller,
                           ledger, open_groups, _default_validity_window,
                           accountVars>>

(***************************************************************************)
(* The specifications.                                                     *)
(***************************************************************************)

NoCall == [op |-> "init", sender |-> None, signer |-> None,
           ret |-> None, err |-> None]

Init ==
    /\ AccountManagerInit
    /\ CacheInit
    /\ SendInit
    /\ call = NoCall

NextAccounts ==
    \/ \E s \in Signers : set_default_signer(s)
    \/ \E a \in Addresses, s \in Signers : set_signer(a, s)
    \/ \E a \in Addresses : get_signer(a)

SpecAccounts == Init /\ [][NextAccounts]_vars

NextProvision ==
    \/ \E s \in Signers : set_default_signer(s)
    \/ \E a \in Addresses, s \in Signers : set_signer(a, s)
    \/ \E a \in Addresses : get_signer(a)
    \/ \E name \in WalletNames, predicate \in Predicates, sender \in Senders :
          from_kmd(name, predicate, sender)
    \/ random
    \/ dispenser
    \/ localnet_dispenser

SpecProvision == Init /\ [][NextProvision]_vars

NextCache ==
    \/ get_suggested_params
    \/ \E v \in ParamsValues, until \in Untils : set_suggested_params(v, until)
    \/ \E timeout \in Timeouts : set_suggested_params_timeout(timeout)
    \/ \E field \in {"ret", "seed"}, v \in ParamsValues : mutate(field, v)
    \/ tick

SpecCache == Init /\ [][NextCache]_vars

\* The cache with a ledger that may fail.
NextCacheDown ==
    \/ get_suggested_params
    \/ get_suggested_params_down
    \/ \E v \in ParamsValues, until \in Untils : set_suggested_params(v, until)
    \/ \E timeout \in Timeouts : set_suggested_params_timeout(timeout)
    \/ \E field \in {"ret", "seed"}, v \in ParamsValues : mutate(field, v)
    \/ tick

SpecCacheDown == Init /\ [][NextCacheDown]_vars

NextSend ==
    \/ \E s \in Signers : set_default_signer(s)
    \/ \E a \in Addresses, s \in Signers : set_signer(a, s)
    \/ \E op \in OpKinds, a \in Addresses :
          \E n \in GroupSizes(op) : send(op, a, n)

SpecSend == Init /\ [][NextSend]_vars

NextBuild ==
    \/ \E a \in Addresses, s \in Signers : set_signer(a, s)
    \/ \E op \in OpKinds, a \in Addresses :
          \E n \in GroupSizes(op) : transactions(op, a, n)
    \/ \E op \in OpKinds, a \in Addresses :
          \E n \in GroupSizes(op) : send(op, a, n)

SpecBuild == Init /\ [][NextBuild]_vars

NextFaults ==
    \/ get_suggested_params
    \/ get_suggested_params_down
    \/ \E timeout \in Timeouts : set_suggested_params_timeout(timeout)
    \/ \E s \in Signers : set_default_signer(s)
    \/ \E op \in OpKinds, a \in Addresses :
          \E n \in GroupSizes(op) : send_rejected(op, a, n)

SpecFaults == Init /\ [][NextFaults]_vars

NextGroups ==
    \/ \E w \in ValidityWindows : set_default_validity_window(w)
    \/ new_group
    \/ \E op \in OpKinds, a \in Addresses :
          \E n \in GroupSizes(op) : transactions(op, a, n)

SpecGroups == Init /\ [][NextGroups]_vars

\* Groups opened by the caller, and the registry and the cache written while
\* they are open.  Every group is a payment of "A", whose signer is its
\* entry or the default one, "s2" once set; the cache is seeded without an
\* expiry time or with one that has come.
NextLate ==
    \/ set_default_signer("s2")
    \/ \E s \in Signers : set_signer("A", s)
    \/ \E v \in ParamsValues, until \in {NoneNum, Some(now)} :
          set_suggested_params(v, until)
    \/ new_group
    \/ \E g \in 1..MaxGroups : build_group(g, "payment", "A", 1)
    \/ \E g \in 1..MaxGroups : execute(g, "payment", "A", 1)

SpecLate == Init /\ [][NextLate]_vars

\* The operations of the registry, of provisioning, of the cache and of the
\* facade together, each with few inputs: the signers registered by hand are
\* all "s1", and every send.<op> and transactions.<op> is a payment of "A".
\* new_group() runs inside send and transactions.
NextClient ==
    \/ set_default_signer("s1")
    \/ \E a \in Addresses : set_signer(a, "s1")
    \/ \E a \in Addresses : get_signer(a)
    \/ \E name \in WalletNames : from_kmd(name, <<>>, None)
    \/ random
    \/ dispenser
    \/ localnet_dispenser
    \/ get_suggested_params
    \/ set_suggested_params(1, NoneNum)
    \/ set_suggested_params_timeout(0)
    \/ set_default_validity_window(1)
    \/ send("payment", "A", 1)
    \/ transactions("payment", "A", 1)

SpecClient == Init /\ [][NextClient]_vars

(***************************************************************************)
(* Claims about the signer registry (checked under SpecAccounts).          *)
(***************************************************************************)

\* The last call was get_signer(a).
GotSigner(a) == call.op = "get_signer" /\ call.sender = a

\* C1: once set_signer(A, S) has run, get_signer(A) returns S whatever the
\* default signer is and whatever was registered for other addresses, for
\* every signer S that can be registered.
C1_RegisteredSignerWins ==
    \A a \in Addresses :
        (GotSigner(a) /\ a \in DOMAIN _accounts)
            => (call.err = None /\ call.ret = _accounts[a])

\* C2, as stated: with A unregistered and no default signer, get_signer(A)
\* fails with the dedicated error SignerNotFoundError and returns no signer.
C2_RaisesSignerNotFoundError ==
    \A a \in Addresses :
        (GotSigner(a) /\ a \notin DOMAIN _accounts /\ _default_signer = None)
            => (call.err = "SignerNotFoundError" /\ call.ret = None)

\* C2, amended: with A unregistered and no default signer, get_signer(A)
\* fails with the built-in ValueError and returns no signer.
C2_RaisesValueError ==
    \A a \in Addresses :
        (GotSigner(a) /\ a \notin DOMAIN _accounts /\ _default_signer = None)
            => (call.err = "ValueError" /\ call.ret = None)

\* C2's case: get_signer of an unregistered address failed while another
\* address was registered and no default signer was set.
C2_Witness ==
    /\ GotSigner("A")
    /\ DOMAIN _accounts = {"B"}
    /\ _default_signer = None
    /\ call.err = "ValueError"

\* C3: with A unregistered, get_signer(A) returns the default signer most
\* recently passed to set_default_signer.
C3_UnregisteredGetsLatestDefault ==
    \A a \in Addresses :
        (GotSigner(a) /\ a \notin DOMAIN _accounts /\ _default_signer # None)
            => (call.err = None /\ call.ret = _default_signer)

\* C4: set_signer(A, S2) on an address that already has an entry leaves
\* get_signer(A) = S2, keeps exactly the same set of keys (one entry for A)
\* and leaves every other address's entry unchanged.
C4_LastWriteWins ==
    [][\A a \in DOMAIN _accounts :
          (call'.op = "set_signer" /\ call'.sender = a /\ call' # call)
            => /\ GetSignerResult(_accounts', _default_signer', a)
                    = [ret |-> call'.signer, err |-> None]
               /\ DOMAIN _accounts' = DOMAIN _accounts
               /\ \A b \in DOMAIN _accounts \ {a} : _accounts'[b] = _accounts[b]
      ]_vars

(***************************************************************************)
(* Claims about the suggested-params cache (checked under SpecCache).      *)
(***************************************************************************)

\* The last call was get_suggested_params().
GotParams == call.op = "get_suggested_params"

\* The last call found a value cached with an expiry later than the time of
\* the call (no call but tick moves the clock, so `now` is that time).
FoundUnexpired ==
    /\ call.before.ref # 0
    /\ call.before.expiry # NoneNum
    /\ now < call.before.expiry[1]

\* The last call found nothing cached, or an expiry at or before its time.
FoundStale ==
    \/ call.before.ref = 0
    \/ call.before.expiry # NoneNum /\ now >= call.before.expiry[1]

\* C5: a get_suggested_params() made strictly before the expiry that an
\* earlier get_suggested_params() established by fetching, with no
\* set_suggested_params in between, returns the value the earlier call
\* returned and does not call the ledger: the two calls together fetch once.
C5_SameWindowOneFetch ==
    (GotParams /\ call.before.window # <<>>
               /\ now < call.before.window[1].expiry)
        => /\ call.value = call.before.window[1].value
           /\ 1 + call.fetches = 1

\* C5's case: a second call served from the cache after time has passed
\* since the fetch, still inside the window.
C5_Witness ==
    /\ GotParams
    /\ call.before.window # <<>>
    /\ call.before.window[1].at < now
    /\ now < call.before.window[1].expiry
    /\ call.fetches = 0

\* C6: get_suggested_params() with nothing cached or at now >= expiry (the
\* boundary included) fetches exactly once, stores the fetched value and
\* sets expiry = now + the TTL in force; at now < expiry it does not fetch
\* and leaves the cached value and the expiry as they were.
C6_FetchIffStale ==
    GotParams =>
        /\ FoundStale =>
              /\ call.fetches = 1
              /\ window # <<>> /\ CachedValue = window[1].value
              /\ call.value = window[1].value
              /\ _cached_suggested_params_expiry
                    = Some(now + _cached_suggested_params_timeout)
        /\ FoundUnexpired =>
              /\ call.fetches = 0
              /\ _cached_suggested_params = call.before.ref
              /\ CachedValue = call.before.value
              /\ _cached_suggested_params_expiry = call.before.expiry

\* C6's case: a call exactly at the stored expiry, which fetched.
C6_Witness ==
    /\ GotParams
    /\ call.before.ref # 0
    /\ call.before.expiry = Some(now)
    /\ call.fetches = 1

\* C7: set_suggested_params(P, until=T) stores P and sets expiry = T for every
\* T supplied, T = 0 and T in the past included; without until it sets
\* expiry = now + ttl.
C7_SeedExpiresAtUntil ==
    call.op = "set_suggested_params" =>
        /\ CachedValue = call.value
        /\ _cached_suggested_params_expiry
              = IF call.until # NoneNum THEN call.until
                ELSE Some(now + _cached_suggested_params_timeout)

\* C8: set_suggested_params_timeout(ttl) stores ttl and leaves the cached
\* object, its value and the expiry already set unchanged; the stored TTL is
\* the one the next fetch and the next seed without until add to now.
C8_TimeoutOnlyChangesTtl ==
    /\ call.op = "set_suggested_params_timeout" =>
          /\ _cached_suggested_params_timeout = call.timeout
          /\ _cached_suggested_params = call.before.ref
          /\ CachedValue = call.before.value
          /\ _cached_suggested_params_expiry = call.before.expiry
    /\ (GotParams /\ call.fetches = 1) =>
          _cached_suggested_params_expiry
              = Some(now + _cached_suggested_params_timeout)
    /\ (call.op = "set_suggested_params" /\ call.until = NoneNum) =>
          _cached_suggested_params_expiry
              = Some(now + _cached_suggested_params_timeout)

\* C8's case: the TTL was changed while a value was cached with an expiry.
C8_Witness ==
    /\ call.op = "set_suggested_params_timeout"
    /\ call.before.ref # 0
    /\ call.before.expiry # NoneNum
    /\ call.timeout # call.before.timeout

\* C9: the object get_suggested_params() returns, on a hit and on a miss, is
\* not the stored object; the caller changing a returned object in place
\* leaves the cached value as it was, and a later hit returns that value.
C9_ReturnsACopy ==
    /\ GotParams =>
          /\ caller.ret # 0
          /\ caller.ret # _cached_suggested_params
          /\ call.value = CachedValue
    /\ call.op = "mutate_ret" =>
          /\ _cached_suggested_params = call.before.ref
          /\ CachedValue = call.before.value

\* C9's case: the caller changed the returned object, which now differs from
\* the cached one.
C9_Witness ==
    /\ call.op = "mutate_ret"
    /\ _cached_suggested_params # 0
    /\ heap[caller.ret] # CachedValue

(***************************************************************************)
(* Claims about the send facade (checked under SpecSend).                  *)
(***************************************************************************)

\* The last call was a send.<op> that returned a result.
Sent == call.op = "send" /\ call.err = None

\* C10: for every operation kind, method_call with its several transactions
\* included, the transaction id send returns is the id of the first
\* transaction of the group it executed (the last group the ledger
\* accepted), and the confirmation it returns is the one of that same
\* transaction, not of another transaction of the group.
C10_FirstTransactionOfGroup ==
    Sent =>
        /\ Len(call.tx_ids) = ledger[Len(ledger)]
        /\ call.result.tx_id = TxId(Len(ledger), 1)
        /\ call.result.tx_id = call.tx_ids[1]
        /\ call.result.confirmation.txid = call.result.tx_id
        /\ call.result.confirmation.confirmed

\* C10's case: a method call whose group held more than one transaction.
C10_Witness ==
    /\ Sent
    /\ call.kind = "method_call"
    /\ Len(call.tx_ids) > 1

(***************************************************************************)
(* Claims about the two facades (checked under SpecBuild).                 *)
(***************************************************************************)

\* The last call was a transactions.<op>.
Built == call.op = "transactions"

\* The calls a facade call made, as a set.
Called == {call.trace[i] : i \in 1..Len(call.trace)}

\* C11: a transactions.<op>(params) call builds without submitting: it calls
\* neither execute nor wait_for_confirmation, the ledger has accepted nothing
\* new, and it returns the list of all the built transactions for
\* method_call and the first built transaction alone for every other kind.
C11_BuildOnly ==
    Built =>
        /\ Called \cap {"execute", "wait_for_confirmation"} = {}
        /\ ledger = call.before.ledger
        /\ call.err = None =>
              IF call.kind = "method_call"
              THEN /\ call.result.list
                   /\ call.result.txns
                         = [i \in 1..call.size |-> Txn(call.group, i)]
              ELSE /\ ~call.result.list
                   /\ call.result.txns = <<Txn(call.group, 1)>>

\* C11's case: a method call built to several transactions, on a ledger that
\* had accepted a group before.
C11_Witness ==
    /\ Built
    /\ call.err = None
    /\ call.kind = "method_call"
    /\ call.size > 1
    /\ Len(ledger) > 0

\* C12: a send.<op>(params) call that returns has made exactly these calls, in
\* this order: new_group(), add_<op>(params), execute(),
\* wait_for_confirmation; the ledger accepted exactly one group and the
\* confirmation was obtained.  The group is a new one (every facade call
\* builds its own, so no two calls use the same group) and the caller never
\* holds it.
C12_SendSequence ==
    /\ Sent =>
          /\ call.trace = <<"new_group", "add_" \o call.kind, "execute",
                            "wait_for_confirmation">>
          /\ Len(ledger) = Len(call.before.ledger) + 1
          /\ call.result.confirmation.confirmed
    /\ call.op \in {"send", "transactions"} =>
          /\ call.group = call.before.groups_created + 1
          /\ groups_created = call.group
          /\ call.group \notin DOMAIN open_groups

\* C12's case: a send returned after earlier facade calls had built groups.
C12_Witness ==
    /\ Sent
    /\ call.before.groups_created > 1
    /\ Len(call.before.ledger) > 0

(***************************************************************************)
(* Claims about provisioning (checked under SpecProvision).                *)
(***************************************************************************)

ProvisionOps == {"random", "dispenser", "localnet_dispenser", "from_kmd"}

\* The last call was a provisioning operation that returned a pair.
Provisioned == call.op \in ProvisionOps /\ call.err = None

\* C13: when a provisioning operation returns (addr, signer), get_signer(addr)
\* returns that signer, whatever addr had registered before and whatever the
\* default signer is; no other entry and not the default signer has changed.
C13_ProvisionedIsRegistered ==
    Provisioned =>
        /\ GetSignerResult(_accounts, _default_signer, call.ret.addr)
              = [ret |-> call.ret.signer, err |-> None]
        /\ DOMAIN _accounts = DOMAIN call.before.accounts \cup {call.ret.addr}
        /\ \A b \in DOMAIN call.before.accounts \ {call.ret.addr} :
              _accounts[b] = call.before.accounts[b]
        /\ _default_signer = call.before.default

\* C13's case: the address had another signer registered and a default
\* signer was set; another address was registered too.
C13_Witness ==
    /\ Provisioned
    /\ call.ret.addr \in DOMAIN call.before.accounts
    /\ call.before.accounts[call.ret.addr] # call.ret.signer
    /\ call.before.default # None
    /\ DOMAIN call.before.accounts = Addresses

\* The last call was a from_kmd whose lookup yielded no account.
KmdFoundNothing == call.op = "from_kmd" /\ call.found = NoAccount

\* C14, as stated: when the lookup yields no account, from_kmd fails with the
\* dedicated error AccountNotFoundError and leaves the registry and the
\* default signer as they were.
C14_RaisesAccountNotFoundError ==
    KmdFoundNothing =>
        /\ call.err = "AccountNotFoundError"
        /\ _accounts = call.before.accounts
        /\ _default_signer = call.before.default

\* C14, amended: when the lookup yields no account, from_kmd fails with the
\* built-in ValueError and leaves the registry and the default signer as
\* they were.
C14_RaisesValueErrorUnchanged ==
    KmdFoundNothing =>
        /\ call.err = "ValueError"
        /\ call.ret = None
        /\ _accounts = call.before.accounts
        /\ _default_signer = call.before.default

\* C14's case: a predicate that rejects every account of a wallet that holds
\* some, with a registry that is not empty.
C14_Witness ==
    /\ KmdFoundNothing
    /\ call.name = "W"
    /\ call.predicate = <<{}>>
    /\ _accounts # <<>>
    /\ call.err = "ValueError"

\* C15: after from_kmd with a sender address, get_signer(sender) returns the
\* signer loaded from the wallet.
C15_KmdSignerTrackedForSender ==
    (call.op = "from_kmd" /\ call.err = None /\ call.sender # None)
        => GetSignerResult(_accounts, _default_signer, call.sender)
              = [ret |-> call.found[1].signer, err |-> None]
(***************************************************************************)
(* Claims about the registry as a whole.                                   *)
(***************************************************************************)

\* C16: a get_signer(A) call, whether it returns or raises, leaves the
\* registry map and the default signer as they were, and one more
\* get_signer(A) right after it has the same outcome.
C16_GetSignerIsPure ==
    [][call'.op = "get_signer"
         => /\ _accounts' = _accounts
            /\ _default_signer' = _default_signer
            /\ GetSignerResult(_accounts', _default_signer', call'.sender)
                 = [ret |-> call'.ret, err |-> call'.err]
      ]_vars

\* C16's cases: a lookup that fell back on the default signer while another
\* address is registered, and a lookup that failed.
C16_Witness ==
    /\ call.op = "get_signer"
    /\ call.sender \notin DOMAIN _accounts
    /\ _accounts # <<>>
    /\ \/ call.err = None /\ call.ret = _default_signer
       \/ call.err = "ValueError"
\* C17: no step of any registry, provisioning, cache or facade operation
\* takes an address out of the registry: an address that has an entry has
\* one in every later state.
C17_RegistryNeverShrinks ==
    [][DOMAIN _accounts \subseteq DOMAIN _accounts']_vars

\* C17's case: both addresses have an entry, one written by hand and one by
\* a provisioning operation, and operations of the cache and of the facade
\* have run, the last one a send.
C17_Witness ==
    /\ DOMAIN _accounts = Addresses
    /\ \E a, b \in Addresses : _accounts[a] = KeySigner(a) /\ _accounts[b] = "s1"
    /\ call.op = "send"
    /\ call.err = None
    /\ caller.seed # 0
    /\ _default_validity_window # DefaultValidityWindow

(***************************************************************************)
(* Claims about the unit of the timeout (checked under SpecCache).         *)
(***************************************************************************)

\* The last call found the value that a get_suggested_params() fetched at
\* time `at` under the default timeout, with the default timeout still set.
FoundDefaultFetch ==
    /\ call.before.window # <<>>
    /\ call.before.timeout = DefaultTimeout
    /\ call.before.expiry = Some(call.before.window[1].expiry)
    /\ call.before.window[1].expiry
          = call.before.window[1].at + DefaultTimeout

\* C18: with the default timeout (3000 milliseconds, three seconds), a value
\* fetched by get_suggested_params() at time t is served from the cache by
\* the calls before t + 3 seconds only: a call at or after t + 3 seconds
\* fetches again.
C18_DefaultTimeoutIsThreeSeconds ==
    (GotParams /\ FoundDefaultFetch)
        => (call.fetches = 1
              <=> now >= call.before.window[1].at + ThreeSeconds)
(***************************************************************************)
(* Claims about failures of the ledger (checked under SpecFaults).         *)
(***************************************************************************)

\* The last call was made while the collaborator `fault` was failing.
Faulty(op, fault) ==
    call.op = op /\ "fault" \in DOMAIN call /\ call.fault = fault

\* C19: a get_suggested_params() that has to ask the ledger while the ledger
\* fails raises the ledger's error after one fetch attempt and leaves the
\* cached value and the expiry as they were; a send.<op> whose execute fails
\* raises that error, returns nothing, and has not started a
\* wait_for_confirmation.
C19_LedgerFailuresSurface ==
    /\ (Faulty("get_suggested_params", "suggested_params") /\ FoundStale)
          => /\ call.err = LedgerError
             /\ call.fetches = 1
             /\ _cached_suggested_params = call.before.ref
             /\ CachedValue = call.before.value
             /\ _cached_suggested_params_expiry = call.before.expiry
    /\ (/\ Faulty("send", "execute")
        /\ GetSignerResult(_accounts, _default_signer, call.sender).err = None)
          => /\ call.err = LedgerError
             /\ call.result = None
             /\ "wait_for_confirmation" \notin Called
             /\ ledger = call.before.ledger

\* C19's case: the ledger failed on a call made at the expiry of a cached
\* value, which is still cached, after an execute had failed.
C19_Witness ==
    /\ Faulty("get_suggested_params", "suggested_params")
    /\ call.before.ref # 0
    /\ call.before.expiry = Some(now)
    /\ call.err = LedgerError
    /\ CachedValue # 0
    /\ groups_created > 0

\* C19's other case: an execute failed, the signer having been found.
C19_WitnessExecute ==
    /\ Faulty("send", "execute")
    /\ call.err = LedgerError
    /\ call.result = None
(***************************************************************************)
(* Claims about the groups new_group() opens (checked under SpecGroups).   *)
(***************************************************************************)

\* The validity window group g is bound to.
GroupWindow(g) == open_groups[g].default_validity_window

\* C20: a client starts with a window of 10 rounds, which only
\* set_default_validity_window(w) changes, to w; a group that new_group()
\* opens is bound to the window in force at that call, and a group opened
\* earlier keeps the window it was opened with whatever is set later.
C20_GroupBoundAtNewGroup ==
    /\ _default_validity_window = DefaultValidityWindow
    /\ [][/\ \A g \in DOMAIN open_groups :
                g \in DOMAIN open_groups' /\ GroupWindow(g)' = GroupWindow(g)
          /\ \A g \in DOMAIN open_groups' \ DOMAIN open_groups :
                GroupWindow(g)' = _default_validity_window
          /\ _default_validity_window' =
                IF call'.op = "set_default_validity_window"
                THEN call'.validity_window
                ELSE _default_validity_window
         ]_vars

\* C20's case: a group opened by a fresh client, the window set to another
\* value since, and a group opened after that: each has its own window.
C20_Witness ==
    /\ call.op = "new_group"
    /\ call.group > 1
    /\ 1 \in DOMAIN open_groups
    /\ GroupWindow(1) = DefaultValidityWindow
    /\ _default_validity_window # DefaultValidityWindow
    /\ GroupWindow(call.group) = _default_validity_window
(***************************************************************************)
(* Claims about open groups (checked under SpecLate).                      *)
(***************************************************************************)

\* The last call built or executed a group opened earlier by new_group().
RanGroup == call.op \in {"build_group", "execute"}

C21_WitnessParams ==
    /\ call.op = "build_group"
    /\ call.prev.op = "set_suggested_params"
    /\ call.fetches = 0
    /\ call.value = call.prev.value
(***************************************************************************)
(* Claims about the cache's fields (checked under SpecCacheDown).          *)
(***************************************************************************)

\* C22: in every reachable state a value is cached if and only if an expiry
\* is set, so a get_suggested_params() that serves the cached value always
\* found an expiry: the `expiry is None` branch never serves a value.
C22_ValueIffExpiry ==
    /\ _cached_suggested_params # 0
          <=> _cached_suggested_params_expiry # NoneNum
    /\ (GotParams /\ call.fetches = 0) => call.before.expiry # NoneNum

\* C22's case: a cached value is served, after the caller seeded the cache
\* and while the ledger is failing.
C22_Witness ==
    /\ GotParams
    /\ call.fetches = 0
    /\ "fault" \in DOMAIN call
    /\ _cached_suggested_params # 0
    /\ _cached_suggested_params_expiry # NoneNum
    /\ caller.seed # 0

====
